---- MODULE Spec2Model ----
(***************************************************************************)
(* crimson-rust: an actor host (System) that mounts actors on their own    *)
(* threads, merges their control channels with select() and routes their   *)
(* Send / Publish envelopes to mailboxes by address.                       *)
(*                                                                         *)
(* Threads of the model: the caller (mount, run = the router loop), one    *)
(* thread per mounted actor, and the select() coordinator.  Every step is  *)
(* one channel operation together with the local computation around it.   *)
(***************************************************************************)
EXTENDS Integers, Sequences, FiniteSets, TLC

\* ------------------------------------------------------------------ bounds
\* number of messages the bulk sender of the scenarios issues
NumMsgs == 4

\* --------------------------------------------------------- program constants
\* sync_channel::<ActorEvent<T>>(1): the control channel of an actor
ControlCap == 1
\* sync_channel::<T>(1): the payload mailbox of an actor
MailboxCap == 1
\* sync_channel(1): the output channel of select()
OutputCap == 1

VARIABLES
  plan,      \* the caller's script: the mounts it performs before run (input)
  sys,       \* the caller's position: "mounting", "running", "returned"
  addr,      \* addr[i]: address actor i was mounted under (mount order)
  prog,      \* prog[i]: the logic of actor i, a sequence of operations
  pc,        \* pc[i]: position of actor thread i
  ip,        \* ip[i]: index of the next operation of actor i's logic
  ctl,       \* ctl[i]: buffer of actor i's control channel (tx0 -> rx0)
  box,       \* box[i]: buffer of actor i's payload mailbox (tx1 -> rx1)
  received,  \* received[i]: payloads actor i's logic has taken, in order
  senders,   \* System.senders: address -> sequence of endpoints (actor ids)
  counters,  \* RoundRobin.counters: address -> <<total, current>>
  muxPc,     \* select() thread: "off", "poll", "send", "done"
  muxLive,   \* receivers being iterated in the current pass
  muxPos,    \* position of the pass in muxLive
  muxKeep,   \* receivers kept so far by filter_map in the current pass
  hand,      \* value taken by try_recv and not yet sent downstream
  out,       \* buffer of select()'s output channel
  rtr,       \* router loop: "recv" (waiting for an event), "fwd" (in a send)
  fwd,       \* deliveries the current dispatch still has to make
  events,    \* the SystemEvents the observer f has been called with
  ahead      \* history: ahead[<<i, j>>] = elements of input j select() has
             \* sent downstream while the element now pending at input i waits

vars == <<plan, sys, addr, prog, pc, ip, ctl, box, received, senders, counters,
          muxPc, muxLive, muxPos, muxKeep, hand, out, rtr, fwd, events, ahead>>

\* ------------------------------------------------------------- actor logic
Op(kind, to) == [op |-> kind, to |-> to]
Repeat(n, o) == [k \in 1..n |-> o]

\* main.rs A, generalised to n messages: sender.send("B", ..) n times
ProgA(n) == Repeat(n, Op("send", "B"))
\* main.rs B: for message in receiver { .. }
ProgB == <<Op("drain", "")>>
\* an actor whose run() returns at once
ProgIdle == <<>>
\* takes n payloads and returns
ProgTake(n) == Repeat(n, Op("recv", ""))
\* a pool member that sends to and publishes to its own pool "B"
ProgPool == <<Op("send", "B"), Op("publish", "B"), Op("send", "B")>> \o ProgTake(2)
\* pool members that send to their own pool and take one payload
ProgPeer(n) == Repeat(n, Op("send", "B")) \o ProgTake(1)
\* publishes to its own pool and takes its copy
ProgCast == <<Op("publish", "B")>> \o ProgTake(1)
\* fills the control path with envelopes for nobody before taking anything
ProgBusy == Repeat(4, Op("send", "F")) \o ProgTake(2)
\* sends and publishes to an address nobody is mounted under, then to "B"
ProgLost == <<Op("send", "F"), Op("publish", "F"), Op("send", "B"), Op("send", "B")>>
\* sends to its own pool "B", then to "A", and takes one payload
ProgBoth == <<Op("send", "B"), Op("send", "A")>> \o ProgTake(1)

M(a, p) == [address |-> a, logic |-> p]

\* the scripts of the caller (main.rs main, and the scenarios of its kind)
Scenarios ==
  { << >>,
    << M("A", ProgA(NumMsgs)), M("B", ProgB) >>,
    << M("E", ProgLost), M("B", ProgTake(2)) >>,
    << M("A", ProgA(2)), M("B", ProgBusy) >>,
    << M("B", ProgIdle), M("B", ProgPool) >>,
    << M("B", ProgPeer(1)), M("B", ProgPeer(2)) >>,
    << M("A", ProgA(2)), M("B", ProgB), M("C", ProgA(1)) >>,
    << M("A", ProgA(3)), M("B", ProgTake(2)), M("B", ProgTake(1)) >>,
    << M("B", ProgCast), M("B", ProgTake(1)), M("B", ProgTake(1)) >>,
    << M("B", ProgBoth), M("B", ProgTake(1)), M("A", ProgTake(1)) >> }


\* ---------------------------------------------------------------- channels
Range(q) == { q[k] : k \in DOMAIN q }
Actors == 1..Len(addr)

\* mutant of ChanFull: an unbounded channel() in place of sync_channel(1)
ChanFullNever(buf, cap) == FALSE

\* mutant of ChanFull: one slot more than the channel was created with
ChanFullOffByOne(buf, cap) == Len(buf) > cap

\* a bounded channel's send blocks while its buffer holds `cap` values
ChanFull(buf, cap) == Len(buf) >= cap

\* tx0 and the Sender's clone of it live until the actor thread ends
CtlTxAlive(i) == pc[i] \notin {"done", "panicked"}

\* rx0 lives in System.receivers, then in select()'s vector or iterator
CtlRxAlive(i) ==
  \/ sys = "mounting"
  \/ /\ muxPc \in {"poll", "send"}
     /\ \/ i \in Range(muxKeep)
        \/ \E k \in muxPos..Len(muxLive) : muxLive[k] = i

\* mutant of BoxRxAlive: the mailbox receiver is dropped only when the actor
\* thread ends, not when actor.run() returns
BoxRxAliveUntilExit(i) == pc[i] \in {"spawned", "running", "stopping"}

\* mutant of BoxRxAlive: try_send in place of send, a full mailbox counts as
\* a failed send
BoxRxAliveTrySend(i) == pc[i] \in {"spawned", "running"} /\ box[i] = << >>

\* rx1 is moved into actor.run() and dropped when run() returns
BoxRxAlive(i) == pc[i] \in {"spawned", "running"}

\* mutant of BoxTxAlive: the router's payload senders live only while a
\* forward is being made
BoxTxAliveInForward == rtr = "fwd"

\* tx1 lives in System.senders, dropped when System::run returns
BoxTxAlive == sys # "returned"

\* ---------------------------------------------------------------- envelopes
\* ActorEvent<T>.  `id` is <<actor, k>>: for Send / Publish it is the payload T
\* (every call carries a distinct value, k the position of the call in the
\* logic); for Started (k = 0) and Stopped it only tags the mount.
Envelope(type, from, to, id) == [type |-> type, from |-> from, to |-> to, id |-> id]

StartedEvent(i) == Envelope("Started", addr[i], "", <<i, 0>>)
StoppedEvent(i) == Envelope("Stopped", addr[i], "", <<i, Len(prog[i]) + 1>>)

\* Sender::send / Sender::publish build the envelope from the bound address
SenderEvent(i) ==
  LET o == prog[i][ip[i]]
  IN Envelope(IF o.op = "send" THEN "Send" ELSE "Publish", addr[i], o.to, <<i, ip[i]>>)

\* ------------------------------------------------------------- round robin
\* mutant of RRNew: the counter starts at 0 instead of len - 1
RRNewFromZero(s) == [a \in DOMAIN s |-> <<Len(s[a]), 0>>]

\* RoundRobin::new: (total, current) = (len, len - 1) for every key
RRNew(s) == [a \in DOMAIN s |-> <<Len(s[a]), Len(s[a]) - 1>>]

\* RoundRobin::next: the index returned, and the counters afterwards
RRNextIndex(c, a) ==
  IF a \in DOMAIN c
  THEN LET current == c[a][2] + 1
       IN IF current >= c[a][1] THEN 0 ELSE current
  ELSE 0

\* mutant of RRNextCounters: storing the new index of one address puts every
\* other address back to its initial index
RRNextCountersReset(c, a) ==
  [x \in DOMAIN c |->
     IF x = a THEN <<c[x][1], RRNextIndex(c, x)>> ELSE <<c[x][1], c[x][1] - 1>>]

RRNextCounters(c, a) ==
  IF a \in DOMAIN c
  THEN [c EXCEPT ![a] = <<c[a][1], RRNextIndex(c, a)>>]
  ELSE c

\* ------------------------------------------------------------ system events
\* SystemEvent as handed to f, with what caused it: `env` the envelope being
\* dispatched, `sel` the index RoundRobin::next returned for it (-1: none),
\* `tgt` the actor whose mailbox the failed send was for (0: none).
Note(ev, env, sel, tgt) == [ev |-> ev, env |-> env, sel |-> sel, tgt |-> tgt]

\* mutant of LifecycleEvent: the Stopped arm is a copy of the Started arm
LifecycleEventCopied(e) == <<"Started", e.from>>

\* ActorEvent::Started(address) => f(SystemEvent::Started(address)), and the
\* same for Stopped
LifecycleEvent(e) == <<e.type, e.from>>

\* mutant of ForwardEvent: the lookup comes first, an unknown address gets
\* its Error in place of a Forward
ForwardEventAfterLookup(e) ==
  IF e.to \in DOMAIN senders
  THEN <<"Forward", e.from, e.to, 0>>
  ELSE <<"Error", e.to, "does not exist">>

\* f(SystemEvent::Forward(from.clone(), to.clone(), 0))
ForwardEvent(e) == <<"Forward", e.from, e.to, 0>>

\* mutant of DoesNotExist: the error names the sender, not the target address
DoesNotExistFrom(e) == <<"Error", e.from, "does not exist">>

\* None => f(SystemEvent::Error(to, format!("does not exist")))
DoesNotExist(e) == <<"Error", e.to, "does not exist">>
SendError(e) == <<"Error", e.to, "send error">>

\* self.senders.get(&to)
Known(to) == to \in DOMAIN senders

\* mutant of SendTargets: the Send arm falls through into the Publish loop
SendTargetsFallThrough(vec, index) == <<vec[index + 1]>> \o vec

\* the mailboxes the Send arm sends to: vec[round_robin.next(to)]
SendTargets(vec, index) == <<vec[index + 1]>>

\* mutant of PublishTargets: only the first endpoint of the address is sent to
PublishTargetsFirst(vec) == <<vec[1]>>

\* the mailboxes the Publish arm sends to: for sender in vec.iter()
PublishTargets(vec) == vec

\* mutant of Remaining: the first failed send ends the dispatch
RemainingAbort(f, ok) == IF ok THEN Tail(f) ELSE << >>

\* what is left of a dispatch after one mailbox send: the Publish loop goes on
\* to the next sender whether the send succeeded (ok) or not
Remaining(f, ok) == Tail(f)

\* -------------------------------------------------------------------- Init
Init ==
  /\ plan \in Scenarios
  /\ sys = "mounting"
  /\ addr = << >> /\ prog = << >> /\ pc = << >> /\ ip = << >>
  /\ ctl = << >> /\ box = << >> /\ received = << >>
  /\ senders = [a \in {} |-> << >>]
  /\ counters = [a \in {} |-> <<0, 0>>]
  /\ muxPc = "off" /\ muxLive = << >> /\ muxPos = 1 /\ muxKeep = << >>
  /\ hand = << >>
  /\ out = << >>
  /\ rtr = "recv"
  /\ fwd = << >>
  /\ events = << >>
  /\ ahead = [p \in (1..Len(plan)) \X (1..Len(plan)) |-> 0]

muxVars == <<muxPc, muxLive, muxPos, muxKeep, hand>>
actorVars == <<addr, prog, pc, ip, received>>
routerVars == <<senders, counters, rtr, fwd, events>>

\* ------------------------------------------------------------------ caller
\* mutant of RegistryPush: a new address gets its empty vector, the endpoint
\* is pushed only under an address that exists
RegistryPushExisting(s, a, i) ==
  IF a \in DOMAIN s THEN [s EXCEPT ![a] = Append(@, i)] ELSE s @@ (a :> << >>)

\* System::mount: spawn_actor, receivers.push, senders[address].push
RegistryPush(s, a, i) ==
  LET s1 == IF a \in DOMAIN s THEN s ELSE s @@ (a :> << >>)
  IN [s1 EXCEPT ![a] = Append(@, i)]

Mount ==
  /\ sys = "mounting"
  /\ Len(addr) < Len(plan)
  /\ LET i == Len(addr) + 1
         m == plan[i]
     IN /\ addr' = Append(addr, m.address)
        /\ prog' = Append(prog, m.logic)
        /\ pc' = Append(pc, "spawned")
        /\ ip' = Append(ip, 1)
        /\ ctl' = Append(ctl, << >>)
        /\ box' = Append(box, << >>)
        /\ received' = Append(received, << >>)
        /\ senders' = RegistryPush(senders, m.address, i)
  /\ UNCHANGED <<plan, ahead, sys, counters, muxVars, out, rtr, fwd, events>>

\* System::run up to the first iteration: RoundRobin::new, select(receivers)
Run ==
  /\ sys = "mounting"
  /\ Len(addr) = Len(plan)
  /\ sys' = "running"
  /\ counters' = RRNew(senders)
  /\ muxPc' = "poll"
  /\ muxLive' = [k \in 1..Len(addr) |-> k]
  /\ muxPos' = 1
  /\ muxKeep' = << >>
  /\ UNCHANGED <<plan, ahead, actorVars, ctl, box, senders, hand, out, rtr, fwd, events>>


\* ------------------------------------------------------------ actor threads
\* tx0.send(ActorEvent::Started(address.clone())).unwrap()
ActorStart(i) ==
  /\ pc[i] = "spawned"
  /\ IF CtlRxAlive(i)
     THEN /\ ~ChanFull(ctl[i], ControlCap)
          /\ ctl' = [ctl EXCEPT ![i] = Append(@, StartedEvent(i))]
          /\ pc' = [pc EXCEPT ![i] = "running"]
     ELSE /\ pc' = [pc EXCEPT ![i] = "panicked"]
          /\ UNCHANGED ctl
  /\ UNCHANGED <<plan, ahead, sys, addr, prog, ip, received, box, senders, counters,
                 muxVars, out, rtr, fwd, events>>

\* sender.send(to, value).unwrap() / sender.publish(to, value).unwrap()
ActorSend(i) ==
  /\ pc[i] = "running"
  /\ ip[i] <= Len(prog[i])
  /\ prog[i][ip[i]].op \in {"send", "publish"}
  /\ IF CtlRxAlive(i)
     THEN /\ ~ChanFull(ctl[i], ControlCap)
          /\ ctl' = [ctl EXCEPT ![i] = Append(@, SenderEvent(i))]
          /\ ip' = [ip EXCEPT ![i] = @ + 1]
          /\ UNCHANGED pc
     ELSE /\ pc' = [pc EXCEPT ![i] = "panicked"]
          /\ UNCHANGED <<ctl, ip>>
  /\ UNCHANGED <<plan, ahead, sys, addr, prog, received, box, senders, counters,
                 muxVars, out, rtr, fwd, events>>

\* receiver.recv(): blocks for a payload; an error once the channel is closed
ActorRecv(i) ==
  /\ pc[i] = "running"
  /\ ip[i] <= Len(prog[i])
  /\ prog[i][ip[i]].op = "recv"
  /\ IF box[i] # << >>
     THEN /\ received' = [received EXCEPT ![i] = Append(@, Head(box[i]))]
          /\ box' = [box EXCEPT ![i] = Tail(@)]
     ELSE /\ ~BoxTxAlive
          /\ UNCHANGED <<received, box>>
  /\ ip' = [ip EXCEPT ![i] = @ + 1]
  /\ UNCHANGED <<plan, ahead, sys, addr, prog, pc, ctl, senders, counters,
                 muxVars, out, rtr, fwd, events>>

\* for message in receiver { .. }: one iteration, or the end of the loop
ActorDrain(i) ==
  /\ pc[i] = "running"
  /\ ip[i] <= Len(prog[i])
  /\ prog[i][ip[i]].op = "drain"
  /\ IF box[i] # << >>
     THEN /\ received' = [received EXCEPT ![i] = Append(@, Head(box[i]))]
          /\ box' = [box EXCEPT ![i] = Tail(@)]
          /\ UNCHANGED ip
     ELSE /\ ~BoxTxAlive
          /\ ip' = [ip EXCEPT ![i] = @ + 1]
          /\ UNCHANGED <<received, box>>
  /\ UNCHANGED <<plan, ahead, sys, addr, prog, pc, ctl, senders, counters,
                 muxVars, out, rtr, fwd, events>>

\* actor.run() returns: the Sender and the mailbox receiver are dropped
ActorReturn(i) ==
  /\ pc[i] = "running"
  /\ ip[i] > Len(prog[i])
  /\ pc' = [pc EXCEPT ![i] = "stopping"]
  /\ UNCHANGED <<plan, ahead, sys, addr, prog, ip, received, ctl, box, senders, counters,
                 muxVars, out, rtr, fwd, events>>

\* tx0.send(ActorEvent::Stopped(address)).unwrap(), and the thread ends
ActorStop(i) ==
  /\ pc[i] = "stopping"
  /\ IF CtlRxAlive(i)
     THEN /\ ~ChanFull(ctl[i], ControlCap)
          /\ ctl' = [ctl EXCEPT ![i] = Append(@, StoppedEvent(i))]
          /\ pc' = [pc EXCEPT ![i] = "done"]
     ELSE /\ pc' = [pc EXCEPT ![i] = "panicked"]
          /\ UNCHANGED ctl
  /\ UNCHANGED <<plan, ahead, sys, addr, prog, ip, received, box, senders, counters,
                 muxVars, out, rtr, fwd, events>>

\* ------------------------------------------------------------------ select
\* mutant of TryRecv: the disconnect is reported before the buffered value
TryRecvEager(i) ==
  IF ~CtlTxAlive(i) THEN "Disconnected"
  ELSE IF ctl[i] # << >> THEN "Ok" ELSE "Empty"

\* mutant of TryRecv: the Empty and Disconnected arms exchanged, so that an
\* input whose actor is still running is dropped from the live set
TryRecvSwapped(i) ==
  IF ctl[i] # << >> THEN "Ok"
  ELSE IF CtlTxAlive(i) THEN "Disconnected" ELSE "Empty"

\* inner.try_recv(): a buffered value comes before the disconnect
TryRecv(i) ==
  IF ctl[i] # << >> THEN "Ok"
  ELSE IF CtlTxAlive(i) THEN "Empty" ELSE "Disconnected"

\* mutant of MuxAdvance: an input that gave a value is polled again at once
\* (while let Ok(value) = inner.try_recv())
MuxAdvanceGreedy(keep) ==
  IF hand # << >> /\ keep
  THEN /\ muxPc' = "poll"
       /\ UNCHANGED <<muxLive, muxPos, muxKeep>>
  ELSE LET kept == IF keep THEN Append(muxKeep, muxLive[muxPos]) ELSE muxKeep
       IN IF muxPos < Len(muxLive)
          THEN /\ muxPos' = muxPos + 1
               /\ muxKeep' = kept
               /\ muxPc' = "poll"
               /\ UNCHANGED muxLive
          ELSE /\ muxPos' = 1
               /\ muxKeep' = << >>
               /\ muxLive' = kept
               /\ muxPc' = IF kept = << >> THEN "done" ELSE "poll"

\* filter_map gives Some(inner) (keep = TRUE) or None for the receiver at
\* muxPos; after the last one the new vector replaces `receivers`, and the
\* thread returns when it is empty (dropping the output sender), else sleeps
MuxAdvance(keep) ==
  LET kept == IF keep THEN Append(muxKeep, muxLive[muxPos]) ELSE muxKeep
  IN IF muxPos < Len(muxLive)
     THEN /\ muxPos' = muxPos + 1
          /\ muxKeep' = kept
          /\ muxPc' = "poll"
          /\ UNCHANGED muxLive
     ELSE /\ muxPos' = 1
          /\ muxKeep' = << >>
          /\ muxLive' = kept
          /\ muxPc' = IF kept = << >> THEN "done" ELSE "poll"

\* mutant of MuxPoll: no `if receivers.len() == 0 { return }` for a vector
\* that is empty from the start
MuxPollNoExit ==
  /\ muxPc = "poll"
  /\ muxLive # << >>
  /\ LET i == muxLive[muxPos]
     IN CASE TryRecv(i) = "Ok" ->
               /\ hand' = <<Head(ctl[i])>>
               /\ ctl' = [ctl EXCEPT ![i] = Tail(@)]
               /\ muxPc' = "send"
               /\ ahead' = [p \in DOMAIN ahead |-> IF p[1] = i THEN 0 ELSE ahead[p]]
               /\ UNCHANGED <<muxLive, muxPos, muxKeep>>
          [] TryRecv(i) = "Empty" ->
               /\ MuxAdvance(TRUE)
               /\ UNCHANGED <<hand, ctl, ahead>>
          [] OTHER ->
               /\ MuxAdvance(FALSE)
               /\ UNCHANGED <<hand, ctl, ahead>>
  /\ UNCHANGED <<plan, sys, actorVars, box, senders, counters, out, rtr, fwd, events>>

MuxPoll ==
  /\ muxPc = "poll"
  /\ IF muxLive = << >>
     THEN /\ muxPc' = "done"
          /\ UNCHANGED <<muxLive, muxPos, muxKeep, hand, ctl, ahead>>
     ELSE LET i == muxLive[muxPos]
          IN CASE TryRecv(i) = "Ok" ->
                    /\ hand' = <<Head(ctl[i])>>
                    /\ ctl' = [ctl EXCEPT ![i] = Tail(@)]
                    /\ muxPc' = "send"
                    /\ ahead' = [p \in DOMAIN ahead |-> IF p[1] = i THEN 0 ELSE ahead[p]]
                    /\ UNCHANGED <<muxLive, muxPos, muxKeep>>
               [] TryRecv(i) = "Empty" ->
                    /\ MuxAdvance(TRUE)
                    /\ UNCHANGED <<hand, ctl, ahead>>
               [] OTHER ->
                    /\ MuxAdvance(FALSE)
                    /\ UNCHANGED <<hand, ctl, ahead>>
  /\ UNCHANGED <<plan, sys, actorVars, box, senders, counters, out, rtr, fwd, events>>

\* sender.send(value): blocks while the output is full; Err once the router's
\* receiver is gone
MuxSend ==
  /\ muxPc = "send"
  /\ IF sys = "running"
     THEN /\ ~ChanFull(out, OutputCap)
          /\ out' = Append(out, Head(hand))
          /\ ahead' = [p \in DOMAIN ahead |->
                         IF p[2] = Head(hand).id[1] /\ p[1] # p[2] /\ ctl[p[1]] # << >>
                         THEN ahead[p] + 1 ELSE ahead[p]]
          /\ MuxAdvance(TRUE)
     ELSE /\ MuxAdvance(FALSE)
          /\ UNCHANGED <<out, ahead>>
  /\ hand' = << >>
  /\ UNCHANGED <<plan, sys, actorVars, ctl, box, senders, counters, rtr, fwd, events>>

\* ------------------------------------------------------------------ router
Delivery(tgt, e) == [tgt |-> tgt, env |-> e]

\* one iteration of `for event in select(..)` up to its first mailbox send
RouterRecv ==
  /\ sys = "running"
  /\ rtr = "recv"
  /\ out # << >>
  /\ LET e == Head(out)
         index == RRNextIndex(counters, e.to)
     IN /\ out' = Tail(out)
        /\ CASE e.type \in {"Started", "Stopped"} ->
                  /\ events' = Append(events, Note(LifecycleEvent(e), e, -1, 0))
                  /\ UNCHANGED <<counters, fwd, rtr>>
             [] e.type = "Send" /\ ~Known(e.to) ->
                  /\ events' = events \o <<Note(ForwardEvent(e), e, -1, 0),
                                           Note(DoesNotExist(e), e, -1, 0)>>
                  /\ UNCHANGED <<counters, fwd, rtr>>
             [] e.type = "Send" /\ Known(e.to) ->
                  /\ events' = Append(events, Note(ForwardEvent(e), e, index, 0))
                  /\ counters' = RRNextCounters(counters, e.to)
                  /\ fwd' = [k \in DOMAIN SendTargets(senders[e.to], index) |->
                               Delivery(SendTargets(senders[e.to], index)[k], e)]
                  /\ rtr' = "fwd"
             [] e.type = "Publish" /\ ~Known(e.to) ->
                  /\ events' = events \o <<Note(ForwardEvent(e), e, -1, 0),
                                           Note(DoesNotExist(e), e, -1, 0)>>
                  /\ UNCHANGED <<counters, fwd, rtr>>
             [] e.type = "Publish" /\ Known(e.to) ->
                  /\ events' = Append(events, Note(ForwardEvent(e), e, -1, 0))
                  /\ fwd' = [k \in DOMAIN PublishTargets(senders[e.to]) |->
                               Delivery(PublishTargets(senders[e.to])[k], e)]
                  /\ rtr' = IF fwd' = << >> THEN "recv" ELSE "fwd"
                  /\ UNCHANGED counters
  /\ UNCHANGED <<plan, ahead, sys, actorVars, ctl, box, senders, muxVars>>

\* sender.send(value): blocks while the mailbox is full and its receiver
\* lives; Err(_) => f(Error(to, "send error")) once the receiver is gone
RouterForward ==
  /\ sys = "running"
  /\ rtr = "fwd"
  /\ LET d == Head(fwd)
         ok == BoxRxAlive(d.tgt)
     IN /\ IF ok
           THEN /\ ~ChanFull(box[d.tgt], MailboxCap)
                /\ box' = [box EXCEPT ![d.tgt] = Append(@, d.env.id)]
                /\ UNCHANGED events
           ELSE /\ events' = Append(events, Note(SendError(d.env), d.env, -1, d.tgt))
                /\ UNCHANGED box
        /\ fwd' = Remaining(fwd, ok)
        /\ rtr' = IF Remaining(fwd, ok) = << >> THEN "recv" ELSE "fwd"
  /\ UNCHANGED <<plan, ahead, sys, actorVars, ctl, senders, counters, muxVars, out>>

\* the multiplexed stream is closed: the loop ends and run returns
RouterReturn ==
  /\ sys = "running"
  /\ rtr = "recv"
  /\ out = << >>
  /\ muxPc = "done"
  /\ sys' = "returned"
  /\ UNCHANGED <<plan, ahead, actorVars, ctl, box, senders, counters, muxVars, out,
                 rtr, fwd, events>>

\* ------------------------------------------------------------ specification
Next ==
  \/ Mount
  \/ Run
  \/ \E i \in Actors : ActorStart(i)
  \/ \E i \in Actors : ActorSend(i)
  \/ \E i \in Actors : ActorRecv(i)
  \/ \E i \in Actors : ActorDrain(i)
  \/ \E i \in Actors : ActorReturn(i)
  \/ \E i \in Actors : ActorStop(i)
  \/ MuxPoll
  \/ MuxSend
  \/ RouterRecv
  \/ RouterForward
  \/ RouterReturn

Spec == Init /\ [][Next]_vars


\* the scheduler runs every thread that can take a step: the actor threads,
\* the select() thread and the caller's thread inside run
ActorStep ==
  \E i \in Actors :
    \/ ActorStart(i) \/ ActorSend(i) \/ ActorRecv(i)
    \/ ActorDrain(i) \/ ActorReturn(i) \/ ActorStop(i)
MuxStep == MuxPoll \/ MuxSend
RouterStep == RouterRecv \/ RouterForward \/ RouterReturn

FairSpec ==
  /\ Init /\ [][Next]_vars
  /\ WF_vars(ActorStep) /\ WF_vars(MuxStep) /\ WF_vars(RouterStep)

\* ------------------------------------------------------------------ claims
LogicReturned(i) == pc[i] \in {"stopping", "done"}
AllLogicReturned == \A i \in Actors : LogicReturned(i)

\* C1: run returns if and only if every mounted actor's logic has returned:
\* it has never returned while some actor's run() is still executing, and
\* once run is under way and every actor's run() has returned, run
\* eventually returns (fair scheduling of the threads).
C1_RunReturns ==
  /\ [](sys = "returned" => AllLogicReturned)
  /\ (sys = "running" /\ AllLogicReturned) ~> (sys = "returned")

\* C1 witness: run has returned with three actors mounted, all finished
C1_Witness ==
  /\ sys = "returned"
  /\ Len(addr) = 3
  /\ \A i \in Actors : pc[i] = "done"


\* ---------------------------------------------------------------- C2
Count(q, x) == Cardinality({ k \in DOMAIN q : q[k] = x })

\* the actors whose mailbox a payload has been put into
Holders(id) == { j \in Actors : id \in Range(received[j] \o box[j]) }

\* C2: per-endpoint FIFO: the payloads one actor's logic has taken from its
\* mailbox that come from the same sending actor appear in the order in
\* which the sender issued the calls (payload <<a, k>> is a's k-th
\* operation), each of them once.
C2_PerEndpointFifo ==
  \A e \in Actors :
    \A p, q \in DOMAIN received[e] :
      (p < q /\ received[e][p][1] = received[e][q][1])
        => received[e][p][2] < received[e][q][2]

\* C2 witness: main.rs's B has taken every message A sent, first to last
C2_Witness ==
  /\ Len(addr) = 2
  /\ Len(prog[1]) = NumMsgs
  /\ received[2] = [k \in 1..NumMsgs |-> <<1, k>>]

\* C2 witness, two senders: B has taken C's message between A's two messages
C2_WitnessInterleaved ==
  /\ Len(addr) = 3
  /\ received[2] = << <<1, 1>>, <<3, 1>>, <<1, 2>> >>

\* ---------------------------------------------------------------- C3
IsForward(n) == n.ev[1] = "Forward"

\* the Forward notes of the Send envelopes dispatched to address a, in order
SendNotes(a) ==
  SelectSeq(events, LAMBDA n : IsForward(n) /\ n.env.type = "Send" /\ n.env.to = a)

\* the envelope is still being delivered by the router
Pending(e) == \E k \in DOMAIN fwd : fwd[k].env = e

\* the router reported a failed send of envelope e to actor t
Failed(e, t) ==
  \E k \in DOMAIN events :
    /\ events[k].ev = <<"Error", e.to, "send error">>
    /\ events[k].env = e
    /\ events[k].tgt = t

\* C3: round-robin Send: the k-th Send envelope (k = 0, 1, ..) dispatched to
\* an address with N endpoints selects index k mod N and is forwarded to the
\* endpoint mounted (k mod N)-th under the address and to no other: the
\* payload is in that actor's mailbox (or taken by it), or its send failed,
\* or the router is still in that send.
C3_RoundRobin ==
  \A a \in DOMAIN senders :
    LET ns == SendNotes(a)
        N == Len(senders[a])
    IN \A k \in DOMAIN ns :
         LET t == senders[a][((k - 1) % N) + 1]
             e == ns[k].env
         IN /\ ns[k].sel = (k - 1) % N
            /\ Holders(e.id) \subseteq {t}
            /\ \A d \in DOMAIN fwd : fwd[d].env = e => fwd[d].tgt = t
            /\ Pending(e) \/ Failed(e, t) \/ Holders(e.id) = {t}
            /\ ~(Failed(e, t) /\ Holders(e.id) = {t})

\* C3 witness: three Sends to a pool of two, by two senders; the third is
\* back at endpoint 0 and in its mailbox
C3_Witness ==
  \E a \in DOMAIN senders :
    /\ Len(senders[a]) = 2
    /\ Len(SendNotes(a)) = 3
    /\ SendNotes(a)[3].sel = 0
    /\ Holders(SendNotes(a)[3].env.id) = {senders[a][1]}
    /\ \E p, q \in 1..3 : SendNotes(a)[p].env.id[1] # SendNotes(a)[q].env.id[1]


\* ---------------------------------------------------------------- C4
IsError(n) == n.ev[1] = "Error"

\* the Error events the router emitted while dispatching envelope e
ErrorsOf(e) == { k \in DOMAIN events : IsError(events[k]) /\ events[k].env = e }

\* the Error events for the send of envelope e to actor t
ErrorsAt(e, t) == { k \in ErrorsOf(e) : events[k].tgt = t }

\* the sends of envelope e to actor t the router still has to make
PendingAt(e, t) == { k \in DOMAIN fwd : fwd[k].env = e /\ fwd[k].tgt = t }

\* C4: Publish fan-out: for every Publish dispatched to a registered address
\* each of its N endpoints gets exactly one send of the payload: one copy in
\* its mailbox, or one Error event for it, or the send is still to be made by
\* the dispatch (so a failure does not end the dispatch); the payload reaches
\* only endpoints of the address and the envelope causes at most N Errors,
\* each a "send error" for the target address.
C4_PublishFanOut ==
  \A p \in DOMAIN events :
    LET e == events[p].env
    IN (IsForward(events[p]) /\ e.type = "Publish" /\ Known(e.to)) =>
         LET vec == senders[e.to]
         IN /\ \A k \in DOMAIN vec :
                 Count(received[vec[k]] \o box[vec[k]], e.id)
                   + Cardinality(ErrorsAt(e, vec[k]))
                   + Cardinality(PendingAt(e, vec[k])) = 1
            /\ Holders(e.id) \subseteq Range(vec)
            /\ Cardinality(ErrorsOf(e)) <= Len(vec)
            /\ \A k \in ErrorsOf(e) :
                 /\ events[k].ev = <<"Error", e.to, "send error">>
                 /\ events[k].tgt \in Range(vec)
                 /\ k > p

\* C4 witness: a Publish to a pool of two is done; the send to the first
\* endpoint failed and the second endpoint has its copy
C4_Witness ==
  \E p \in DOMAIN events :
    LET e == events[p].env
    IN /\ IsForward(events[p]) /\ e.type = "Publish" /\ Known(e.to)
       /\ Len(senders[e.to]) = 2
       /\ ~Pending(e)
       /\ Failed(e, senders[e.to][1])
       /\ Holders(e.id) = {senders[e.to][2]}

\* ---------------------------------------------------------------- C5
\* C5: unknown address: a Send or Publish to an address without endpoints
\* gets, right after its Forward, exactly one Error(to, "does not exist");
\* its payload is put into no mailbox and the router makes no send for it,
\* and having emitted the Error the router is waiting for the next event.
C5_UnknownAddress ==
  \A p \in DOMAIN events :
    LET e == events[p].env
    IN (IsForward(events[p]) /\ ~Known(e.to)) =>
         /\ p + 1 \in DOMAIN events
         /\ events[p + 1].ev = <<"Error", e.to, "does not exist">>
         /\ ErrorsOf(e) = {p + 1}
         /\ Holders(e.id) = {}
         /\ ~Pending(e)
         /\ (p + 1 = Len(events) => rtr = "recv" /\ sys = "running")

\* C5 witness: a Send and a Publish to "F" were answered with the Error and
\* the router dispatched a later event
C5_Witness ==
  \E p, q \in DOMAIN events :
    /\ IsForward(events[p]) /\ events[p].env.type = "Send"
    /\ IsForward(events[q]) /\ events[q].env.type = "Publish"
    /\ ~Known(events[p].env.to) /\ ~Known(events[q].env.to)
    /\ Len(events) > q + 1 /\ q > p
    /\ IsForward(events[Len(events)])

\* ---------------------------------------------------------------- C6
\* C6: no retry: when the router makes the send of a Send envelope and the
\* selected endpoint's actor logic has returned, that step emits one
\* Error(to, "send error"), changes no mailbox and leaves the router waiting
\* for the next event; and the payload of a Send that failed is in no
\* mailbox at all, its envelope has that single Error, and nothing is left
\* to send for it.
C6_NoRetry ==
  /\ [][ (rtr = "fwd" /\ Head(fwd).env.type = "Send"
           /\ LogicReturned(Head(fwd).tgt) /\ fwd' # fwd)
         => /\ events' = Append(events, Note(<<"Error", Head(fwd).env.to, "send error">>,
                                              Head(fwd).env, -1, Head(fwd).tgt))
            /\ box' = box
            /\ fwd' = << >>
            /\ rtr' = "recv" ]_vars
  /\ [](\A p \in DOMAIN events :
          LET e == events[p].env
          IN (IsError(events[p]) /\ e.type = "Send" /\ Known(e.to)) =>
               /\ ErrorsOf(e) = {p}
               /\ Holders(e.id) = {}
               /\ ~Pending(e)
               /\ LogicReturned(events[p].tgt))

\* C6 witness: a Send to a pool of two failed at the endpoint of a finished
\* actor while the other member of the pool is still running, and the router
\* has gone on to a later event
C6_Witness ==
  \E p \in DOMAIN events :
    LET e == events[p].env
    IN /\ IsError(events[p]) /\ e.type = "Send" /\ Known(e.to)
       /\ Len(senders[e.to]) = 2
       /\ \E j \in Range(senders[e.to]) : pc[j] = "running"
       /\ Len(events) > p


\* ---------------------------------------------------------------- C7
\* the events of the observer that belong to the mount of actor i
StartedAt(i) ==
  { p \in DOMAIN events : events[p].ev[1] = "Started" /\ events[p].env.id[1] = i }
StoppedAt(i) ==
  { p \in DOMAIN events : events[p].ev[1] = "Stopped" /\ events[p].env.id[1] = i }
ForwardsOf(i) ==
  { p \in DOMAIN events : IsForward(events[p]) /\ events[p].env.id[1] = i }

\* what C7 says of the order and the number of the lifecycle events
LifecycleOrder(i) ==
  /\ Cardinality(StartedAt(i)) <= 1
  /\ Cardinality(StoppedAt(i)) <= 1
  /\ \A p \in StartedAt(i) : events[p].ev = <<"Started", addr[i]>>
  /\ \A p \in StoppedAt(i) : events[p].ev = <<"Stopped", addr[i]>> /\ LogicReturned(i)
  /\ \A p \in StoppedAt(i) : \E q \in StartedAt(i) : q < p
  /\ \A f \in ForwardsOf(i) :
       /\ \E q \in StartedAt(i) : q < f
       /\ \A p \in StoppedAt(i) : f < p

LifecycleSeen(i) ==
  Cardinality(StartedAt(i)) = 1 /\ Cardinality(StoppedAt(i)) = 1

Issued(i) ==
  LET ks == SelectSeq([k \in 1..(ip[i] - 1) |-> k],
                      LAMBDA k : prog[i][k].op \in {"send", "publish"})
  IN (IF pc[i] = "spawned" THEN << >> ELSE <<StartedEvent(i)>>)
     \o [j \in DOMAIN ks |->
           Envelope(IF prog[i][ks[j]].op = "send" THEN "Send" ELSE "Publish",
                    addr[i], prog[i][ks[j]].to, <<i, ks[j]>>)]
     \o (IF pc[i] = "done" THEN <<StoppedEvent(i)>> ELSE << >>)

\* what select()'s output has carried so far: the envelopes the router has
\* taken from it (one Started, Stopped or Forward each), then its buffer
OutStream ==
  LET taken == SelectSeq(events, LAMBDA n : ~IsError(n))
  IN [k \in DOMAIN taken |-> taken[k].env] \o out

From(i, q) == SelectSeq(q, LAMBDA e : e.id[1] = i)

\* C8: multiplexer: what has been taken from input i (everything the actor
\* sent but the buffer of the channel) is on the output once each and in the
\* input's order, the value in the coordinator's hand last; and the
\* coordinator has ended, closing the output, only with every input
\* disconnected and empty and nothing in its hand.
C8_Multiplexer ==
  /\ \A i \in Actors : From(i, OutStream) \o From(i, hand) \o ctl[i] = Issued(i)
  /\ muxPc = "done" =>
       /\ hand = << >>
       /\ \A i \in Actors : ~CtlTxAlive(i) /\ ctl[i] = << >>

\* C8 witness: the coordinator has ended after forwarding the envelopes of
\* three inputs, the router has not taken the last one yet
C8_Witness ==
  /\ muxPc = "done"
  /\ Len(addr) = 3
  /\ out # << >>
  /\ \A i \in Actors : Len(From(i, OutStream)) >= 2

\* ---------------------------------------------------------------- C9
\* the Send / Publish calls of actor i that have returned and whose envelope
\* the router has not taken from select()'s output
Outrun(i) ==
  Len(SelectSeq(ctl[i] \o hand \o out,
                LAMBDA e : e.id[1] = i /\ e.type \in {"Send", "Publish"}))

\* C9 as stated: an actor is never more than one returned call ahead
C9_AtMostOnePending == \A i \in Actors : Outrun(i) <= 1

\* C9 amended: an actor is never more than three returned calls ahead of the
\* router: one envelope in its control channel, one in the coordinator's
\* hand and one in the output channel.
C9_Backpressure == \A i \in Actors : Outrun(i) <= ControlCap + 1 + OutputCap

\* C9 witness: three calls of one actor have returned, none is dispatched,
\* and the actor has a fourth to make
C9_Witness ==
  \E i \in Actors :
    /\ Outrun(i) = 3
    /\ pc[i] = "running" /\ ip[i] <= Len(prog[i])
    /\ prog[i][ip[i]].op = "send"

\* ---------------------------------------------------------------- C10
\* C10: the Forward event of a Send carries the index the round-robin
\* allocator selected for it, the one of a Publish carries 0.
C10_ForwardIndex ==
  \A p \in DOMAIN events :
    LET n == events[p]
    IN (IsForward(n) /\ Known(n.env.to)) =>
         n.ev[4] = (IF n.env.type = "Send" THEN n.sel ELSE 0)


\* ---------------------------------------------------------------- C11
\* the Forward events the observer got for envelope e
ForwardsFor(e) == { k \in DOMAIN events : IsForward(events[k]) /\ events[k].env = e }

\* the Publish envelopes the router has dispatched to a registered address
PublishedEnvelopes ==
  { events[k].env : k \in { p \in DOMAIN events :
        IsForward(events[p]) /\ events[p].env.type = "Publish"
        /\ Known(events[p].env.to) } }

\* C11 as stated: a completed Publish to an address with N receivers has
\* given the observer N Forward events with its source/target pair.
C11_PublishLogging_AsStated ==
  \A e \in PublishedEnvelopes :
    ~Pending(e) =>
      Cardinality({ k \in DOMAIN events :
                      events[k].ev = <<"Forward", e.from, e.to, 0>> /\ events[k].env = e })
        = Len(senders[e.to])

\* C11 amended: a Publish to an address with N receivers gives the observer
\* exactly one Forward(from, to, 0) event, emitted before any of the N sends,
\* and once the dispatch is complete every receiver whose send did not fail
\* has the value (all N when all are still waiting for a payload).
C11_PublishLogging ==
  \A e \in PublishedEnvelopes :
    /\ Cardinality(ForwardsFor(e)) = 1
    /\ \A k \in ForwardsFor(e) : events[k].ev = <<"Forward", e.from, e.to, 0>>
    /\ ~Pending(e) =>
         \A t \in Range(senders[e.to]) :
           /\ (t \in Holders(e.id)) # Failed(e, t)
           /\ BoxRxAlive(t) => t \in Holders(e.id)

\* C11 witness: one value published to three mounted receivers; all three
\* have taken it and run has returned
C11_Witness ==
  \E e \in PublishedEnvelopes :
    /\ Len(senders[e.to]) = 3
    /\ \A t \in Range(senders[e.to]) : e.id \in Range(received[t])
    /\ ErrorsOf(e) = {}
    /\ sys = "returned"

\* ---------------------------------------------------------------- C12
\* the number of send/publish calls of actor i that have returned
SendsReturned(i) ==
  Len(SelectSeq(SubSeq(prog[i], 1, ip[i] - 1),
                LAMBDA o : o.op \in {"send", "publish"}))

\* actor i is inside a send/publish call that cannot return
BlockedInSend(i) ==
  /\ pc[i] = "running"
  /\ ip[i] <= Len(prog[i])
  /\ prog[i][ip[i]].op \in {"send", "publish"}
  /\ CtlRxAlive(i)
  /\ ChanFull(ctl[i], ControlCap)

\* C12: between mount and run no send/publish call of a mounted actor has
\* returned, no payload is in any mailbox or was taken from one, and the
\* observer has seen no event; a send/publish call has returned only once
\* run is draining the control channels and has taken the actor's Started.
C12_SuspendedUntilRun ==
  /\ sys = "mounting" =>
       /\ events = << >>
       /\ out = << >> /\ hand = << >>
       /\ \A i \in Actors :
            /\ SendsReturned(i) = 0
            /\ box[i] = << >> /\ received[i] = << >>
            /\ ctl[i] \in {<< >>, <<StartedEvent(i)>>}
  /\ \A i \in Actors :
       SendsReturned(i) > 0 =>
         /\ sys # "mounting" /\ muxPc # "off"
         /\ StartedEvent(i) \notin Range(ctl[i])

\* C12 witness: every actor is mounted and started, run was not called,
\* and an actor is suspended in its first send
C12_Witness ==
  /\ sys = "mounting"
  /\ Len(addr) = Len(plan)
  /\ \A i \in Actors : pc[i] = "running"
  /\ \E i \in Actors : BlockedInSend(i) /\ ip[i] = 1

\* C12 witness of the resumption: run is draining and a first send returned
C12_WitnessResumed ==
  /\ sys = "running"
  /\ \E i \in Actors :
       /\ SendsReturned(i) = 1
       /\ Len(ctl[i]) = 1 /\ ctl[i][1].type \in {"Send", "Publish"}

\* ---------------------------------------------------------------- C13
\* the receive operations (recv, or the whole drain loop) actor i is past
RecvsPassed(i) ==
  SelectSeq(SubSeq(prog[i], 1, ip[i] - 1), LAMBDA o : o.op \in {"recv", "drain"})

\* the system of main.rs: A sends its messages to "B", B drains its mailbox
MainPlan == << M("A", ProgA(NumMsgs)), M("B", ProgB) >>

\* while run has not returned no receive stream has ended
StreamsOpen ==
  sys # "returned" =>
    \A i \in Actors :
      /\ \A k \in DOMAIN RecvsPassed(i) : RecvsPassed(i)[k].op = "recv"
      /\ Len(RecvsPassed(i)) <= Len(received[i])

\* in main.rs B's loop never ends, B never emits Stopped, run never returns
MainNeverReturns ==
  plan = MainPlan =>
    /\ sys # "returned"
    /\ \A i \in Actors : addr[i] = "B" =>
         /\ pc[i] \in {"spawned", "running"}
         /\ ip[i] = 1
         /\ StoppedEvent(i) \notin Range(ctl[i] \o hand \o out)
         /\ \A k \in DOMAIN events : events[k].ev # <<"Stopped", "B">>

\* C13: the router holds every endpoint's payload sender until run returns,
\* so no actor's receive stream ends while the run loop is active; in the
\* system of main.rs B never emits Stopped and run never returns, although
\* every message A sent is delivered to B.
C13_DrainNeverEnds ==
  /\ [](StreamsOpen /\ MainNeverReturns)
  /\ (plan = MainPlan /\ sys = "running")
       ~> (Len(received) = 2 /\ received[2] = [k \in 1..NumMsgs |-> <<1, k>>])

\* C13 witness: main.rs at rest: A's Started and Stopped are reported, B has
\* taken every message and waits in its loop on an empty open mailbox
C13_Witness ==
  /\ plan = MainPlan
  /\ sys = "running"
  /\ pc = <<"done", "running">>
  /\ Len(received[2]) = NumMsgs
  /\ box[2] = << >>
  /\ BoxTxAlive
  /\ \E k \in DOMAIN events : events[k].ev = <<"Stopped", "A">>
  /\ ~ENABLED (ActorStep \/ RouterStep)

\* ---------------------------------------------------------------- C14
IsPrefix(p, q) == Len(p) <= Len(q) /\ SubSeq(q, 1, Len(p)) = p

\* the router is in a mailbox send to an actor whose logic has not returned
\* and whose single mailbox slot is occupied
RouterBlocked ==
  /\ rtr = "fwd"
  /\ ~LogicReturned(Head(fwd).tgt)
  /\ box[Head(fwd).tgt] # << >>

\* the router is in a mailbox send to a running actor with a free slot
RouterFree ==
  /\ rtr = "fwd"
  /\ ~LogicReturned(Head(fwd).tgt)
  /\ box[Head(fwd).tgt] = << >>

\* C14: head-of-line blocking: while the router forwards to an endpoint
\* whose mailbox slot is occupied and whose actor is still running, the
\* router is blocked: no step reports an event to the observer, takes an
\* element from the multiplexed stream, advances a counter or the dispatch,
\* or puts a payload into any mailbox, whichever actor it is from; the
\* forward can complete only after the target has taken a payload or its
\* logic has returned.  A forward to a free slot is not blocked: the send
\* can be made at once and puts the payload into the mailbox.
C14_HeadOfLine ==
  [][ /\ RouterBlocked =>
           /\ ~ENABLED (RouterStep)
           /\ UNCHANGED <<events, fwd, rtr, counters, senders, sys>>
           /\ IsPrefix(out, out')
           /\ \A j \in Actors : IsPrefix(box'[j], box[j])
           /\ RouterBlocked'
                \/ box'[Head(fwd).tgt] = Tail(box[Head(fwd).tgt])
                \/ LogicReturned(Head(fwd).tgt)'
      /\ RouterFree =>
           /\ ENABLED (RouterForward)
           /\ fwd' # fwd =>
                /\ box'[Head(fwd).tgt] = <<Head(fwd).env.id>>
                /\ fwd' = Tail(fwd)
                /\ events' = events
    ]_vars

\* C14 witness: the router is blocked in a send to B's full mailbox while
\* elements of two other actors wait behind it in the multiplexed path
C14_Witness ==
  /\ RouterBlocked
  /\ Len(addr) = 3
  /\ out # << >> /\ hand # << >>
  /\ Head(out).id[1] # Head(hand).id[1]
  /\ Head(fwd).tgt \notin {Head(out).id[1], Head(hand).id[1]}

\* C14 witness, free slot: the router is in a send to an empty mailbox
C14_WitnessFree == RouterFree /\ Head(fwd).env.type = "Send"

\* ---------------------------------------------------------------- C15
\* the Send/Publish envelopes the router has taken from select's output:
\* issued by their actor and no longer in the control channel, the
\* coordinator's hand or the output buffer
Dispatched ==
  UNION { { e \in Range(Issued(i)) \ Range(ctl[i] \o hand \o out) :
              e.type \in {"Send", "Publish"} } : i \in Actors }

\* the events the observer got while envelope e was dispatched
EventsOf(e) == { k \in DOMAIN events : events[k].env = e }

\* C15: for every Send or Publish envelope the router has dispatched, to a
\* registered address or not, the observer has exactly one Forward event,
\* and it is the first event of the envelope; every Error the envelope causes
\* comes after that Forward and before the events of any later envelope (the
\* events of one envelope are contiguous); Forward and Error events exist
\* for dispatched envelopes only.
C15_ForwardFirst ==
  /\ \A e \in Dispatched :
       /\ Cardinality(ForwardsFor(e)) = 1
       /\ \A f \in ForwardsFor(e) :
            /\ events[f].ev[2] = e.from /\ events[f].ev[3] = e.to
            /\ \A k \in EventsOf(e) :
                 /\ f <= k
                 /\ \A m \in f..k : events[m].env = e
       /\ EventsOf(e) = ForwardsFor(e) \cup ErrorsOf(e)
       /\ ~Known(e.to) => Cardinality(ErrorsOf(e)) = 1
  /\ \A k \in DOMAIN events :
       (IsForward(events[k]) \/ IsError(events[k])) => events[k].env \in Dispatched

\* C15 witness: a Publish to a registered address whose Forward is followed
\* by an Error of a failed send, and then by the events of later envelopes
C15_Witness ==
  \E e \in Dispatched :
    /\ e.type = "Publish" /\ Known(e.to)
    /\ ErrorsOf(e) # {}
    /\ \E k \in DOMAIN events : events[k].env # e /\ \A m \in EventsOf(e) : m < k

\* C15 witness, unknown address: Forward, then the Error, then a later Forward
C15_WitnessUnknown ==
  \E e \in Dispatched :
    /\ ~Known(e.to)
    /\ \E f \in ForwardsFor(e) :
         /\ IsError(events[f + 1]) /\ events[f + 1].env = e
         /\ Len(events) > f + 1 /\ IsForward(events[f + 2])

\* ---------------------------------------------------------------- C16
Increasing(q) == \A a, b \in DOMAIN q : a < b => q[a] < q[b]

\* the select() thread is inside a pass over its receivers
InPass == muxPc \in {"poll", "send"} /\ muxLive # << >>

\* the inputs of a pass are the live ones in mount order; those kept so far
\* are inputs the pass is already past
PassOrder ==
  /\ Increasing(muxLive) /\ Increasing(muxKeep)
  /\ Range(muxLive) \subseteq Actors
  /\ InPass =>
       /\ muxPos \in DOMAIN muxLive
       /\ \A k \in Range(muxKeep) : k \in Range(muxLive) /\ k < muxLive[muxPos]
  /\ hand # << >> => InPass /\ Head(hand).id[1] = muxLive[muxPos]
  /\ \A i \in Actors : (muxPc # "off" /\ ctl[i] # << >>) => i \in Range(muxLive)

\* a step of the pass: an element is taken only from the input at the pass's
\* position, and once it is sent downstream the pass moves to the next input
\* or ends; within a pass the position never goes back
PassStep ==
  /\ (hand = << >> /\ hand' # << >>) =>
       /\ hand' = <<Head(ctl[muxLive[muxPos]])>>
       /\ UNCHANGED <<muxLive, muxPos>>
  /\ (hand # << >> /\ hand' = << >>) =>
       \/ muxLive' = muxLive /\ muxPos' = muxPos + 1
       \/ muxPos = Len(muxLive) /\ muxPos' = 1 /\ muxKeep' = << >>
  /\ (InPass /\ muxPos' # muxPos) =>
       \/ muxLive' = muxLive /\ muxPos' = muxPos + 1
       \/ muxPos = Len(muxLive) /\ muxPos' = 1 /\ muxKeep' = << >>

\* while an element waits at input i, at most one element of another input j
\* has been sent downstream
AtMostOneAhead ==
  \A i, j \in Actors : (i # j /\ ctl[i] # << >>) => ahead[<<i, j>>] <= 1

\* C16: polling-pass fairness of select(): a pass visits the live inputs in
\* mount order and takes at most one element from each; hence while an
\* element is pending at input i, at most one element of any other input j
\* is sent to the output before the pending element of i is.
C16_PassFairness ==
  /\ [](PassOrder /\ AtMostOneAhead)
  /\ [][PassStep]_vars

\* C16 witness: an element waits at input i, one element of a later-polled
\* input j has gone past it, j has its next element pending, and the pass is
\* about to poll i
C16_Witness ==
  \E i, j \in Actors :
    /\ i # j
    /\ ctl[i] # << >> /\ ctl[j] # << >>
    /\ ahead[<<i, j>>] = 1
    /\ muxPc = "poll" /\ muxLive[muxPos] = i
    /\ Len(addr) = 3

\* ---------------------------------------------------------------- C17
\* the step takes the next element from select()'s output
Dispatches == out # << >> /\ Len(out') < Len(out)

\* the counters after a Send to registered address x was dispatched: x's
\* last-used index is the next one (wrapping), every other entry is as before
Advanced(x) ==
  /\ DOMAIN counters' = DOMAIN counters
  /\ counters'[x][1] = counters[x][1]
  /\ counters'[x][2] = (counters[x][2] + 1) % counters[x][1]
  /\ \A a \in DOMAIN counters \ {x} : counters'[a] = counters[a]

\* C17: frame of the round-robin state: during run the registered addresses
\* and the endpoints of each address never change; the counter of an address
\* changes only in the step that dispatches a Send to that registered
\* address, which stores its next index and leaves the counters of all other
\* addresses alone; every other step (dispatching a Publish, a Started, a
\* Stopped or a Send to an unknown address, and the mailbox send of a Send,
\* failed or not) leaves every counter unchanged.
C17_CounterFrame ==
  [][ sys = "running" =>
        /\ senders' = senders
        /\ IF Dispatches /\ Head(out).type = "Send" /\ Head(out).to \in DOMAIN senders
           THEN Advanced(Head(out).to)
           ELSE counters' = counters
    ]_vars

\* C17 witness: a Send to a one-endpoint address is dispatched while the
\* two-endpoint address "B" has a last-used index that differs from its
\* initial one
C17_Witness ==
  /\ sys = "running" /\ rtr = "recv"
  /\ out # << >> /\ Head(out).type = "Send" /\ Head(out).to = "A"
  /\ "B" \in DOMAIN counters /\ counters["B"] = <<2, 0>>
  /\ "A" \in DOMAIN counters

\* C17 witness, send error: the Send's mailbox send has failed and the
\* counter of its address stays advanced
C17_WitnessError ==
  \E k \in DOMAIN events :
    /\ events[k].ev[1] = "Error" /\ events[k].ev[3] = "send error"
    /\ events[k].env.type = "Send"
    /\ counters[events[k].env.to] = <<2, 0>>
    /\ Len(SendNotes(events[k].env.to)) = 1

\* C17 witness, the other dispatches: a Publish to a registered address and
\* a Send to an unknown address have been dispatched
C17_WitnessOthers ==
  /\ \E k \in DOMAIN events : IsForward(events[k]) /\ events[k].env.type = "Publish"
                                /\ Known(events[k].env.to)
  /\ Len(addr) = 2

\* ---------------------------------------------------------------- C18
\* every registered address has at least one endpoint, and its endpoints are
\* the actors mounted under it, in mount order
RegistryFilled ==
  /\ DOMAIN senders = Range(addr)
  /\ \A a \in DOMAIN senders :
       /\ Len(senders[a]) >= 1
       /\ senders[a] = SelectSeq([k \in 1..Len(addr) |-> k], LAMBDA k : addr[k] = a)

\* the stored pair of every address is within the address's endpoints
CountersInRange ==
  /\ DOMAIN counters = DOMAIN senders
  /\ \A a \in DOMAIN counters :
       /\ counters[a][1] = Len(senders[a])
       /\ 0 <= counters[a][2] /\ counters[a][2] < counters[a][1]
       /\ RRNextIndex(counters, a) + 1 \in DOMAIN senders[a]

\* C18: registry and index bounds: after any sequence of mounts every
\* address in the registry has at least one endpoint (so len - 1 does not
\* underflow in RoundRobin::new); in every state during run the pair
\* (total, current) of each address has 0 <= current < total = the number of
\* endpoints mounted under the address, the index next() returns addresses
\* an existing endpoint, and so did the index of every dispatched Send.
C18_IndexBounds ==
  /\ RegistryFilled
  /\ sys # "mounting" => CountersInRange
  /\ \A k \in DOMAIN events :
       (IsForward(events[k]) /\ events[k].env.type = "Send" /\ Known(events[k].env.to))
         => events[k].sel + 1 \in DOMAIN senders[events[k].env.to]

\* C18 witness: during run an address with two endpoints has gone through
\* both indices and is back at its initial pair (2, 1)
C18_Witness ==
  /\ sys = "running"
  /\ \E a \in DOMAIN counters :
       /\ counters[a] = <<2, 1>>
       /\ Len(SendNotes(a)) = 2
       /\ SendNotes(a)[1].sel = 0 /\ SendNotes(a)[2].sel = 1

\* C18 witness, mounting: three endpoints registered under one address
\* before run
C18_WitnessMounted ==
  /\ sys = "mounting"
  /\ \E a \in DOMAIN senders : Len(senders[a]) = 3

\* ---------------------------------------------------------------- C19
\* the caller mounted nothing
EmptySystem == plan = << >>

\* C19: empty system: when run is called on a System with no mounted actor,
\* select() has no receiver, so the first thing its thread does is to return
\* and close the output; nothing is ever taken, sent downstream or handed to
\* the observer, and run returns.
C19_EmptySystem ==
  /\ [](EmptySystem =>
          /\ Actors = {} /\ DOMAIN senders = {} /\ DOMAIN counters = {}
          /\ events = << >> /\ out = << >> /\ hand = << >>
          /\ muxLive = << >> /\ muxPc \in {"off", "poll", "done"}
          /\ sys = "returned" => muxPc = "done")
  /\ [][(EmptySystem /\ muxPc = "poll" /\ muxPc' # muxPc) => muxPc' = "done"]_vars
  /\ (EmptySystem /\ sys = "running") ~> (sys = "returned")

\* C19 witness: run has returned on the empty system, the observer was never
\* called
C19_Witness ==
  /\ EmptySystem
  /\ sys = "returned"
  /\ muxPc = "done"
  /\ events = << >>

====
